---- MODULE Spec2Model ----
(***************************************************************************)
(* The registry reconciliation engine of lido-keys-api:                    *)
(* AbstractRegistryService.update and the store it writes, against a       *)
(* staking-module registry contract read at pinned blocks.                 *)
(***************************************************************************)
EXTENDS Integers, Sequences, FiniteSets, TLC

\* ------------------------------------------------------------------ bounds
\* blocks on the chain, operators in the registry, signing keys per operator
MaxBlocks == 5
MaxOps == 2
MaxKeys == 2
\* the update loop: minutes per step of the clock, steps of the clock, calls
\* of updateValidators
ClockStep == 30
MaxTicks == 6
MaxCalls == 4
\* the HTTP reads: staking modules in the list
MaxModules == 2

VARIABLES
  chain,              \* the blocks: chain[n] is the block of number n
  variant,            \* which getToIndex the service has: "key" or "validator"
  metaRows,           \* table registry_meta
  operatorRows,       \* table registry_operator
  keyRows,            \* table registry_key
  pc,                 \* where update() is: idle, decide, save, keys, done
  prevMeta,           \* update's prevMeta: {} for null, else {meta}
  currMeta,           \* update's currMeta
  previousOperators,  \* update's previousOperators
  currentOperators,   \* update's currentOperators
  cursor,             \* position of syncUpdatedKeysWithContract's loop
  operatorFetches,    \* operatorFetch.fetch calls of the current update
  fetchLog,           \* keyFetch.fetch calls of the current update
  lastResult,         \* how the last update ended
  pre,                \* the store when the current update started
  retryOf,            \* the start store of an update aborted after its commit
  increasing          \* the block number of the last call while every call so
                      \* far completed and the numbers strictly increased,
                      \* 0 before the first call, -1 once that is broken

\* ValidatorsUpdateService and the process it runs in
VARIABLES
  now,                    \* the clock, in minutes
  loopPc,                 \* initialize(): off, init, first, interval
  isExecuting,            \* the flag of @OneAtTime on updateValidators
  executing,              \* bodies of updateValidators in flight
  calls,                  \* calls of updateValidators so far
  dropped,                \* calls that returned without running the body
  succeeded,              \* bodies that ran to their end
  lastBlockTimestampSec,  \* {} for undefined
  lastBlockNumber,        \* {} for undefined
  timers,                 \* the pending timeouts of the process
  updateDeadlineTimer,    \* {} for undefined, else the timeout it refers to
  exited,                 \* {} while the process runs, else how it exited
  lastSuccessAt           \* when the deadline was armed by initialize or by
                          \* the last body that ran to its end

regVars == <<chain, variant, metaRows, operatorRows, keyRows, pc, prevMeta,
             currMeta, previousOperators, currentOperators, cursor,
             operatorFetches, fetchLog, lastResult, pre, retryOf,
             increasing>>

loopVars == <<now, loopPc, isExecuting, executing, calls, dropped, succeeded,
              lastBlockTimestampSec, lastBlockNumber, timers,
              updateDeadlineTimer, exited, lastSuccessAt>>

\* KeysService and what it reads
VARIABLES
  stakingModules,         \* stakingRouterService.getStakingModules(): types
  response                \* what the last call of KeysService came to

httpVars == <<stakingModules, response>>

vars == <<regVars, loopVars, httpVars>>

\* ---------------------------------------------------------------- contract
\* The contract at a block is its operator list: dense, the operator at
\* position p has index p - 1, and each operator is its two counters and the
\* contents of its keys. A key's content is the number of the block that
\* added it.
NewOperator == [totalSigningKeys |-> 0, usedSigningKeys |-> 0, keys |-> <<>>]

\* addNodeOperator: appended with no keys; keysOpIndex stays
AddOperator(ops) == Append(ops, NewOperator)

\* addSigningKeys
AddKey(ops, p, content) ==
  [ops EXCEPT ![p] = [@ EXCEPT !.totalSigningKeys = @ + 1,
                               !.keys = Append(@, content)]]

\* removeSigningKey of an unused key: the last key takes its place
RemoveKey(ops, p, i) ==
  LET last == ops[p].totalSigningKeys
      moved == [ops[p].keys EXCEPT ![i] = ops[p].keys[last]]
  IN [ops EXCEPT ![p] = [@ EXCEPT !.totalSigningKeys = last - 1,
                                  !.keys = SubSeq(moved, 1, last - 1)]]

\* a deposit takes the operator's next key: used keys are never changed again
UseKey(ops, p) == [ops EXCEPT ![p] = [@ EXCEPT !.usedSigningKeys = @ + 1]]

\* the contracts a block can leave, each with whether keysOpIndex is bumped
Mutations(ops, number) ==
  {[ops |-> ops, bump |-> FALSE]}
  \cup (IF Len(ops) < MaxOps
        THEN {[ops |-> AddOperator(ops), bump |-> FALSE]} ELSE {})
  \cup { [ops |-> AddKey(ops, p, number), bump |-> TRUE] :
           p \in { q \in 1..Len(ops) : ops[q].totalSigningKeys < MaxKeys } }
  \cup UNION { { [ops |-> RemoveKey(ops, p, i), bump |-> TRUE] :
                   i \in (ops[p].usedSigningKeys + 1)..ops[p].totalSigningKeys } :
               p \in 1..Len(ops) }
  \cup { [ops |-> UseKey(ops, p), bump |-> TRUE] :
           p \in { q \in 1..Len(ops) :
                     ops[q].usedSigningKeys < ops[q].totalSigningKeys } }

Block(n, koi, ops) ==
  [number |-> n, hash |-> n, timestamp |-> 12 * n, keysOpIndex |-> koi,
   ops |-> ops]

\* provider.getBlock by hash
BlockOfHash(h) == CHOOSE b \in {chain[n] : n \in 1..Len(chain)} : b.hash = h

\* ------------------------------------------------------------------- fetch
\* keysOpIndex read with no blockTag: at the head of the chain
getMetaDataFromContract_AtHead(block) ==
  [blockNumber |-> block.number, blockHash |-> block.hash,
   keysOpIndex |-> chain[Len(chain)].keysOpIndex,
   timestamp |-> block.timestamp]

\* getMetaDataFromContract: the block's data and the keysOpIndex at its hash
getMetaDataFromContract(block) ==
  [blockNumber |-> block.number, blockHash |-> block.hash,
   keysOpIndex |-> BlockOfHash(block.hash).keysOpIndex,
   timestamp |-> block.timestamp]

\* operatorFetch.fetch(0, -1, {blockTag: {blockHash}}): all operators, ascending
getOperatorsFromContract(blockHash) ==
  LET ops == BlockOfHash(blockHash).ops
  IN [p \in 1..Len(ops) |->
        [index |-> p - 1,
         totalSigningKeys |-> ops[p].totalSigningKeys,
         usedSigningKeys |-> ops[p].usedSigningKeys]]

\* keyFetch.fetch(operatorIndex, fromIndex, toIndex, {blockTag: {blockHash}}):
\* the keys of the half-open range, each with its operatorIndex and index
keyFetch(operatorIndex, fromIndex, toIndex, blockHash) ==
  LET op == BlockOfHash(blockHash).ops[operatorIndex + 1]
  IN { [operatorIndex |-> operatorIndex, index |-> i, key |-> op.keys[i + 1],
        used |-> i < op.usedSigningKeys] : i \in fromIndex..(toIndex - 1) }

\* ------------------------------------------------------------- diff policy
compareMeta(prev, curr) ==
  /\ prev # {}
  /\ \A m \in prev : /\ m.keysOpIndex = curr.keysOpIndex
                     /\ m.blockHash = curr.blockHash

\* the fast path never taken
isSameContractState_Never(prev, curr) == FALSE

\* const isSameContractState = compareMeta(prevMeta, currMeta)
isSameContractState(prev, curr) == compareMeta(prev, curr)

\* prev is {} for null
compareOperators(prev, curr) ==
  /\ prev # {}
  /\ \A o \in prev : o = curr

\* the key-mirror variant stopping at the used keys
getToIndexKey_Used(currOperator) == currOperator.usedSigningKeys

getToIndexKey(currOperator) == currOperator.totalSigningKeys

getToIndexValidator(currOperator) == currOperator.usedSigningKeys

getToIndex(currOperator) ==
  IF variant = "key" THEN getToIndexKey(currOperator)
  ELSE getToIndexValidator(currOperator)

\* ----------------------------------------------------------------- storage
\* metaStorage.get(): the row, or null ({}) when the table is empty
getMetaDataFromStorage(rows) ==
  IF rows = {} THEN {} ELSE {CHOOSE m \in rows : TRUE}

RECURSIVE SortByIndex(_)
SortByIndex(rows) ==
  IF rows = {} THEN <<>>
  ELSE LET first == CHOOSE r \in rows : \A q \in rows : r.index <= q.index
       IN <<first>> \o SortByIndex(rows \ {first})

\* operatorStorage.findAll(): the rows in ascending order of index
getOperatorsFromStorage(rows) == SortByIndex(rows)

\* insert(keys).onConflict(['index', 'operator_index']).merge()
saveKeys(rows, keys) ==
  { r \in rows : ~ \E k \in keys : /\ k.operatorIndex = r.operatorIndex
                                   /\ k.index = r.index }
  \cup keys

\* the tail keys left in the table
deleteTailKeys_None(rows, operators) == rows

\* the tail cut one key too low
deleteTailKeys_OffByOne(rows, operators) ==
  { r \in rows : ~ \E p \in 1..Len(operators) :
                     /\ r.operatorIndex = operators[p].index
                     /\ r.index >= operators[p].totalSigningKeys - 1 }

\* nativeDelete(RegistryKey, {index: {$gte: operator.totalSigningKeys},
\*                            operatorIndex: operator.index}) for each operator
deleteTailKeys(rows, operators) ==
  { r \in rows : ~ \E p \in 1..Len(operators) :
                     /\ r.operatorIndex = operators[p].index
                     /\ r.index >= operators[p].totalSigningKeys }

\* insert(operators).onConflict('index').merge()
upsertOperators(rows, operators) ==
  { r \in rows : ~ \E p \in 1..Len(operators) : operators[p].index = r.index }
  \cup { operators[p] : p \in 1..Len(operators) }

\* the Meta row inserted only into an empty table
replaceMeta_KeepOld(rows, meta) == IF rows = {} THEN {meta} ELSE rows

\* nativeDelete(RegistryMeta, {}) then persist(new RegistryMeta(currMeta))
replaceMeta(rows, meta) == {meta}

\* the three tables as one value
Store(m, o, k) == [meta |-> m, operators |-> o, keys |-> k]

\* the Meta left for later: the operators and the tail deletes only
saveOperatorsAndMeta_MetaLater(store, operators, meta) ==
  Store(store.meta,
        upsertOperators(store.operators, operators),
        deleteTailKeys(store.keys, operators))

\* saveOperatorsAndMeta: one transaction
saveOperatorsAndMeta(store, operators, meta) ==
  Store(replaceMeta(store.meta, meta),
        upsertOperators(store.operators, operators),
        deleteTailKeys(store.keys, operators))

\* what saveOperatorsAndMeta has written when one of its statements rejects:
\* the tail deletes, then the operator upserts, then the meta
PartialWrites(store, operators, meta) ==
  { Store(store.meta, store.operators, deleteTailKeys(store.keys, operators)),
    Store(store.meta, upsertOperators(store.operators, operators),
          deleteTailKeys(store.keys, operators)),
    saveOperatorsAndMeta(store, operators, meta) }

\* the statements run on the connection, outside the transaction
transactional_NoRollback(before, written, committed) == written

\* entityManager.transactional(...): what was written when the callback
\* resolves, what was there before when it rejects
transactional(before, written, committed) ==
  IF committed THEN written ELSE before

\* --------------------------------------------------------- update's policy
\* no guard against an older block
isStale_Never(prev, curr) == FALSE

\* previousBlockNumber > currentBlockNumber, previousBlockNumber being -1
\* when there is no previous meta
isStale(prev, curr) ==
  LET previousBlockNumber ==
        IF prev = {} THEN -1 ELSE (CHOOSE m \in prev : TRUE).blockNumber
  IN previousBlockNumber > curr.blockNumber

\* previousOperators[currentIndex] ?? null
prevOperatorAt(operators, position) ==
  IF position <= Len(operators) THEN {operators[position]} ELSE {}

\* the used keys of the current operator skipped, known or not
unchangedKeysMaxIndex_CurrUsed(prevOperator, currOperator) ==
  currOperator.usedSigningKeys

\* the used keys of the previous operator skipped, changed or not
unchangedKeysMaxIndex_PrevUsed(prevOperator, currOperator) ==
  IF prevOperator # {}
  THEN (CHOOSE o \in prevOperator : TRUE).usedSigningKeys
  ELSE 0

\* isSameOperator ? prevOperator.usedSigningKeys : 0
unchangedKeysMaxIndex(prevOperator, currOperator) ==
  IF compareOperators(prevOperator, currOperator)
  THEN (CHOOSE o \in prevOperator : TRUE).usedSigningKeys
  ELSE 0

\* the left border dropped to 0 when it reaches the right border
fromIndexOf_Strict(maxIndex, toIndex) ==
  IF maxIndex < toIndex THEN maxIndex ELSE 0

\* unchangedKeysMaxIndex <= toIndex ? unchangedKeysMaxIndex : 0
fromIndexOf(maxIndex, toIndex) ==
  IF maxIndex <= toIndex THEN maxIndex ELSE 0

\* the range the loop of syncUpdatedKeysWithContract fetches at a position
FetchRange(prevOps, currOps, position) ==
  LET curr == currOps[position]
      toIndex == getToIndex(curr)
      maxIndex == unchangedKeysMaxIndex(prevOperatorAt(prevOps, position), curr)
  IN [operatorIndex |-> curr.index,
      fromIndex |-> fromIndexOf(maxIndex, toIndex),
      toIndex |-> toIndex]

FetchKeys(range, blockHash) ==
  keyFetch(range.operatorIndex, range.fromIndex, range.toIndex, blockHash)

\* ------------------------------------------------------------------- state
NoMeta == [blockNumber |-> -1, blockHash |-> -1, keysOpIndex |-> -1,
           timestamp |-> -1]

CurrentStore == Store(metaRows, operatorRows, keyRows)

EmptyStore == Store({}, {}, {})

RegistryInit ==
  /\ chain = <<Block(1, 0, <<>>)>>
  /\ variant \in {"key", "validator"}
  /\ metaRows = {}
  /\ operatorRows = {}
  /\ keyRows = {}
  /\ pc = "idle"
  /\ prevMeta = {}
  /\ currMeta = NoMeta
  /\ previousOperators = <<>>
  /\ currentOperators = <<>>
  /\ cursor = 0
  /\ operatorFetches = 0
  /\ fetchLog = <<>>
  /\ lastResult = "none"
  /\ pre = EmptyStore
  /\ retryOf = {}
  /\ increasing = 0

\* the update loop before onModuleInit
LoopOff ==
  /\ now = ClockStep
  /\ loopPc = "off"
  /\ isExecuting = FALSE
  /\ executing = 0
  /\ calls = 0
  /\ dropped = 0
  /\ succeeded = 0
  /\ lastBlockTimestampSec = {}
  /\ lastBlockNumber = {}
  /\ timers = {}
  /\ updateDeadlineTimer = {}
  /\ exited = {}
  /\ lastSuccessAt = ClockStep

\* no staking module fetched, no call of KeysService yet
HttpOff ==
  /\ stakingModules = <<>>
  /\ response = [kind |-> "none"]

Init == RegistryInit /\ LoopOff /\ HttpOff

\* ------------------------------------------------------------------- chain
\* a new block: the contract as the transactions of the block leave it
ChainAdvance ==
  /\ Len(chain) < MaxBlocks
  /\ LET head == chain[Len(chain)]
     IN \E m \in Mutations(head.ops, head.number + 1) :
          chain' = Append(chain,
            Block(head.number + 1,
                  IF m.bump THEN head.keysOpIndex + 1 ELSE head.keysOpIndex,
                  m.ops))
  /\ UNCHANGED <<loopVars, httpVars>>
  /\ UNCHANGED <<variant, metaRows, operatorRows, keyRows, pc, prevMeta,
                 currMeta, previousOperators, currentOperators, cursor,
                 operatorFetches, fetchLog, lastResult, pre, retryOf,
                 increasing>>

\* ------------------------------------------------------------------ update
\* update(blockHashOrBlockTag), up to the two metas: the reference resolves
\* to some block of the chain
UpdateBegin ==
  /\ pc = "idle"
  /\ \E n \in 1..Len(chain) :
       /\ prevMeta' = getMetaDataFromStorage(metaRows)
       /\ currMeta' = getMetaDataFromContract(chain[n])
       /\ retryOf' = { r \in retryOf : r.blockHash = chain[n].hash }
       /\ increasing' = IF increasing >= 0 /\ chain[n].number > increasing
                        THEN chain[n].number ELSE -1
  /\ pc' = "decide"
  /\ previousOperators' = <<>>
  /\ currentOperators' = <<>>
  /\ cursor' = 0
  /\ operatorFetches' = 0
  /\ fetchLog' = <<>>
  /\ pre' = CurrentStore
  /\ UNCHANGED <<loopVars, httpVars>>
  /\ UNCHANGED <<chain, variant, metaRows, operatorRows, keyRows, lastResult>>

\* 'Previous data is newer than current data': return
ReturnStale ==
  /\ pc = "decide"
  /\ isStale(prevMeta, currMeta)
  /\ pc' = "done"
  /\ lastResult' = "stale"
  /\ UNCHANGED <<loopVars, httpVars>>
  /\ UNCHANGED <<chain, variant, metaRows, operatorRows, keyRows, prevMeta,
                 currMeta, previousOperators, currentOperators, cursor,
                 operatorFetches, fetchLog, pre, retryOf,
                 increasing>>

\* 'Same state, no data update required': replace the meta and return
FastPath ==
  /\ pc = "decide"
  /\ ~ isStale(prevMeta, currMeta)
  /\ isSameContractState(prevMeta, currMeta)
  /\ metaRows' = replaceMeta(metaRows, currMeta)
  /\ pc' = "done"
  /\ lastResult' = "fast"
  /\ UNCHANGED <<loopVars, httpVars>>
  /\ UNCHANGED <<chain, variant, operatorRows, keyRows, prevMeta, currMeta,
                 previousOperators, currentOperators, cursor,
                 operatorFetches, fetchLog, pre, retryOf,
                 increasing>>

\* getOperatorsFromStorage and getOperatorsFromContract
CollectOperators ==
  /\ pc = "decide"
  /\ ~ isStale(prevMeta, currMeta)
  /\ ~ isSameContractState(prevMeta, currMeta)
  /\ previousOperators' = getOperatorsFromStorage(operatorRows)
  /\ currentOperators' = getOperatorsFromContract(currMeta.blockHash)
  /\ operatorFetches' = operatorFetches + 1
  /\ pc' = "save"
  /\ UNCHANGED <<loopVars, httpVars>>
  /\ UNCHANGED <<chain, variant, metaRows, operatorRows, keyRows, prevMeta,
                 currMeta, cursor, fetchLog, lastResult, pre, retryOf,
                 increasing>>

\* await this.saveOperatorsAndMeta(currentOperators, currMeta)
SaveOperatorsAndMeta ==
  /\ pc = "save"
  /\ LET saved == transactional(CurrentStore,
                    saveOperatorsAndMeta(CurrentStore, currentOperators, currMeta),
                    TRUE)
     IN /\ metaRows' = saved.meta
        /\ operatorRows' = saved.operators
        /\ keyRows' = saved.keys
  /\ pc' = "keys"
  /\ cursor' = 1
  /\ UNCHANGED <<loopVars, httpVars>>
  /\ UNCHANGED <<chain, variant, prevMeta, currMeta, previousOperators,
                 currentOperators, operatorFetches, fetchLog, lastResult,
                 pre, retryOf,
                 increasing>>

\* one turn of the loop of syncUpdatedKeysWithContract: fetch and saveKeys
SyncKeys ==
  /\ pc = "keys"
  /\ cursor <= Len(currentOperators)
  /\ LET range == FetchRange(previousOperators, currentOperators, cursor)
     IN /\ fetchLog' = Append(fetchLog, range)
        /\ keyRows' = saveKeys(keyRows, FetchKeys(range, currMeta.blockHash))
  /\ cursor' = cursor + 1
  /\ UNCHANGED <<loopVars, httpVars>>
  /\ UNCHANGED <<chain, variant, metaRows, operatorRows, pc, prevMeta,
                 currMeta, previousOperators, currentOperators,
                 operatorFetches, lastResult, pre, retryOf,
                 increasing>>

\* return currMeta
UpdateReturn ==
  /\ pc = "keys"
  /\ cursor > Len(currentOperators)
  /\ pc' = "done"
  /\ lastResult' = "slow"
  /\ UNCHANGED <<loopVars, httpVars>>
  /\ UNCHANGED <<chain, variant, metaRows, operatorRows, keyRows, prevMeta,
                 currMeta, previousOperators, currentOperators, cursor,
                 operatorFetches, fetchLog, pre, retryOf,
                 increasing>>

\* getBlock or fetchKeysOpIndex rejects: update throws before it has
\* decided anything
BeginAbort ==
  /\ pc = "idle"
  /\ pc' = "done"
  /\ lastResult' = "aborted"
  /\ pre' = CurrentStore
  /\ increasing' = -1
  /\ UNCHANGED <<loopVars, httpVars>>
  /\ UNCHANGED <<chain, variant, metaRows, operatorRows, keyRows, prevMeta,
                 currMeta, previousOperators, currentOperators, cursor,
                 operatorFetches, fetchLog, retryOf>>

\* a statement of saveOperatorsAndMeta rejects: the transaction is rolled
\* back and update throws
SaveOperatorsAndMetaFails ==
  /\ pc = "save"
  /\ \E written \in PartialWrites(CurrentStore, currentOperators, currMeta) :
       LET left == transactional(CurrentStore, written, FALSE)
       IN /\ metaRows' = left.meta
          /\ operatorRows' = left.operators
          /\ keyRows' = left.keys
  /\ pc' = "done"
  /\ lastResult' = "aborted"
  /\ increasing' = -1
  /\ UNCHANGED <<loopVars, httpVars>>
  /\ UNCHANGED <<chain, variant, prevMeta, currMeta, previousOperators,
                 currentOperators, cursor, operatorFetches, fetchLog, pre,
                 retryOf>>

\* another await of update rejects (RPC or store failure): update throws;
\* what was committed stays. The stale return awaits nothing more.
Abort ==
  /\ pc \in {"decide", "keys"}
  /\ pc = "decide" => ~ isStale(prevMeta, currMeta)
  /\ pc = "keys" => cursor <= Len(currentOperators)
  /\ pc' = "done"
  /\ lastResult' = "aborted"
  /\ retryOf' = IF pc = "keys" /\ retryOf = {}
                THEN {[blockHash |-> currMeta.blockHash, store |-> pre]}
                ELSE retryOf
  /\ increasing' = -1
  /\ UNCHANGED <<loopVars, httpVars>>
  /\ UNCHANGED <<chain, variant, metaRows, operatorRows, keyRows, prevMeta,
                 currMeta, previousOperators, currentOperators, cursor,
                 operatorFetches, fetchLog, pre>>

\* the call is over: its locals are gone
UpdateEnd ==
  /\ pc = "done"
  /\ pc' = "idle"
  /\ prevMeta' = {}
  /\ currMeta' = NoMeta
  /\ previousOperators' = <<>>
  /\ currentOperators' = <<>>
  /\ cursor' = 0
  /\ operatorFetches' = 0
  /\ fetchLog' = <<>>
  /\ lastResult' = "none"
  /\ pre' = EmptyStore
  /\ UNCHANGED <<loopVars, httpVars>>
  /\ UNCHANGED <<chain, variant, metaRows, operatorRows, keyRows, retryOf,
                 increasing>>

Next ==
  \/ ChainAdvance
  \/ UpdateBegin
  \/ ReturnStale
  \/ FastPath
  \/ CollectOperators
  \/ SaveOperatorsAndMeta
  \/ SyncKeys
  \/ UpdateReturn
  \/ BeginAbort
  \/ SaveOperatorsAndMetaFails
  \/ Abort
  \/ UpdateEnd

Spec == Init /\ [][Next]_vars

\* ------------------------------------------------------------- update loop
\* UPDATE_VALIDATORS_TIMEOUT_MS = 90 * 60 * 1000, in minutes
UPDATE_VALIDATORS_TIMEOUT_MIN == 90

\* @OneAtTime: the body runs when no body of the method is executing
OneAtTime(isExecutingNow) == ~ isExecutingNow

\* updateValidators without its decorator
updateValidatorsRuns_Undecorated(isExecutingNow) == TRUE

\* @OneAtTime() private async updateValidators()
updateValidatorsRuns(isExecutingNow) == OneAtTime(isExecutingNow)

\* the finalized block validatorsService.updateValidators returns the meta
\* of: the chain makes one block per step of the clock
FinalizedMeta(timestamp) ==
  [blockNumber |-> timestamp \div ClockStep, timestamp |-> timestamp]

\* what the body of updateValidators can get: no meta ({}), or the meta of a
\* block that is not of the future
CycleMetas ==
  {{}} \cup { {FinalizedMeta(n * ClockStep)} : n \in 1..(now \div ClockStep) }

\* meta?.field ?? this.field
orKeep(metaField, field) == IF metaField # {} THEN metaField ELSE field

\* this.lastBlockTimestampSec &&
\*   currTimestampSec - this.lastBlockTimestampSec < TIMEOUT / 1000
isUpdated(lastTimestamp, currTimestamp) ==
  /\ lastTimestamp # {}
  /\ \A t \in lastTimestamp :
       t # 0 /\ currTimestamp - t < UPDATE_VALIDATORS_TIMEOUT_MIN

\* checkValidatorsUpdateTimeout: clearTimeout of the timer the field refers
\* to when there is one and isUpdated; then a new timeout, kept in the
\* field. id tells the timeouts of the process apart.
checkValidatorsUpdateTimeout(pending, timer, lastTimestamp, currTimestamp, id) ==
  LET kept == IF timer # {} /\ isUpdated(lastTimestamp, currTimestamp)
              THEN pending \ timer ELSE pending
      fresh == [id |-> id,
                deadline |-> currTimestamp + UPDATE_VALIDATORS_TIMEOUT_MIN]
  IN [timers |-> kept \cup {fresh}, updateDeadlineTimer |-> {fresh}]

\* the process leaving with success
watchdogExit_Zero(blockNumber) == [code |-> 0, lastBlockNumber |-> blockNumber]

\* new ValidatorsOutdatedError(message, this.lastBlockNumber); process.exit(1)
watchdogExit(blockNumber) == [code |-> 1, lastBlockNumber |-> blockNumber]

LoopInit ==
  /\ RegistryInit
  /\ variant = "key"
  /\ now = ClockStep
  /\ loopPc = "init"
  /\ isExecuting = FALSE
  /\ executing = 0
  /\ calls = 0
  /\ dropped = 0
  /\ succeeded = 0
  /\ lastBlockTimestampSec = {}
  /\ lastBlockNumber = {}
  /\ timers = {}
  /\ updateDeadlineTimer = {}
  /\ exited = {}
  /\ lastSuccessAt = ClockStep
  /\ HttpOff

\* initialize(), to its first await: the deadline is armed and the first
\* updateValidators() is called
Initialize ==
  /\ exited = {}
  /\ loopPc = "init"
  /\ LET armed == checkValidatorsUpdateTimeout(timers, updateDeadlineTimer,
                    lastBlockTimestampSec, now, 0)
     IN /\ timers' = armed.timers
        /\ updateDeadlineTimer' = armed.updateDeadlineTimer
  /\ lastSuccessAt' = now
  /\ calls' = calls + 1
  /\ isExecuting' = TRUE
  /\ executing' = executing + 1
  /\ loopPc' = "first"
  /\ UNCHANGED <<now, dropped, succeeded, lastBlockTimestampSec,
                 lastBlockNumber, exited>>
  /\ UNCHANGED <<regVars, httpVars>>

\* initialize(), after the first updateValidators() settled: setInterval
SetInterval ==
  /\ exited = {}
  /\ loopPc = "first"
  /\ executing = 0
  /\ loopPc' = "interval"
  /\ UNCHANGED <<now, isExecuting, executing, calls, dropped, succeeded,
                 lastBlockTimestampSec, lastBlockNumber, timers,
                 updateDeadlineTimer, exited, lastSuccessAt>>
  /\ UNCHANGED <<regVars, httpVars>>

\* the interval calls updateValidators() and the body starts
IntervalCall ==
  /\ exited = {}
  /\ loopPc = "interval"
  /\ calls < MaxCalls
  /\ updateValidatorsRuns(isExecuting)
  /\ calls' = calls + 1
  /\ isExecuting' = TRUE
  /\ executing' = executing + 1
  /\ UNCHANGED <<now, loopPc, dropped, succeeded, lastBlockTimestampSec,
                 lastBlockNumber, timers, updateDeadlineTimer, exited,
                 lastSuccessAt>>
  /\ UNCHANGED <<regVars, httpVars>>

\* the interval calls updateValidators() while a body is executing: the call
\* returns at once
IntervalCallDropped ==
  /\ exited = {}
  /\ loopPc = "interval"
  /\ calls < MaxCalls
  /\ ~ updateValidatorsRuns(isExecuting)
  /\ calls' = calls + 1
  /\ dropped' = dropped + 1
  /\ UNCHANGED <<now, loopPc, isExecuting, executing, succeeded,
                 lastBlockTimestampSec, lastBlockNumber, timers,
                 updateDeadlineTimer, exited, lastSuccessAt>>
  /\ UNCHANGED <<regVars, httpVars>>

\* the body of updateValidators runs to its end: the fields, then
\* checkValidatorsUpdateTimeout()
CycleSucceeds ==
  /\ exited = {}
  /\ executing > 0
  /\ \E meta \in CycleMetas :
       LET timestamp == orKeep({m.timestamp : m \in meta}, lastBlockTimestampSec)
           armed == checkValidatorsUpdateTimeout(timers, updateDeadlineTimer,
                      timestamp, now, succeeded + 1)
       IN /\ lastBlockTimestampSec' = timestamp
          /\ lastBlockNumber' =
               orKeep({m.blockNumber : m \in meta}, lastBlockNumber)
          /\ timers' = armed.timers
          /\ updateDeadlineTimer' = armed.updateDeadlineTimer
  /\ succeeded' = succeeded + 1
  /\ lastSuccessAt' = now
  /\ executing' = executing - 1
  /\ isExecuting' = FALSE
  /\ UNCHANGED <<now, loopPc, calls, dropped, exited>>
  /\ UNCHANGED <<regVars, httpVars>>

\* the body rejects and the guard of @OneAtTime stays taken
CycleFails_GuardKept ==
  /\ exited = {}
  /\ executing > 0
  /\ executing' = executing - 1
  /\ UNCHANGED <<now, loopPc, isExecuting, calls, dropped, succeeded,
                 lastBlockTimestampSec, lastBlockNumber, timers,
                 updateDeadlineTimer, exited, lastSuccessAt>>
  /\ UNCHANGED <<regVars, httpVars>>

\* validatorsService.updateValidators rejects: the body is left before it
\* wrote a field; the rejection ends in the catch of the caller
CycleFails ==
  /\ exited = {}
  /\ executing > 0
  /\ executing' = executing - 1
  /\ isExecuting' = FALSE
  /\ UNCHANGED <<now, loopPc, calls, dropped, succeeded,
                 lastBlockTimestampSec, lastBlockNumber, timers,
                 updateDeadlineTimer, exited, lastSuccessAt>>
  /\ UNCHANGED <<regVars, httpVars>>

\* the earliest deadline of the pending timeouts that falls before a time,
\* or that time
nextTime(pending, time) ==
  LET due == { t.deadline : t \in pending } \cap 0..time
  IN IF due = {} THEN time ELSE CHOOSE d \in due : \A e \in due : d <= e

\* time passes, by a step of the clock or up to the next deadline: a
\* timeout runs when it is due
ClockTick ==
  /\ exited = {}
  /\ now < ClockStep * MaxTicks
  /\ \A t \in timers : t.deadline > now
  /\ now' = nextTime(timers, now + ClockStep)
  /\ UNCHANGED <<loopPc, isExecuting, executing, calls, dropped, succeeded,
                 lastBlockTimestampSec, lastBlockNumber, timers,
                 updateDeadlineTimer, exited, lastSuccessAt>>
  /\ UNCHANGED <<regVars, httpVars>>

\* the callback of a timeout that is due
WatchdogFires ==
  /\ exited = {}
  /\ \E t \in timers : t.deadline <= now
  /\ exited' = {watchdogExit(lastBlockNumber)}
  /\ UNCHANGED <<now, loopPc, isExecuting, executing, calls, dropped,
                 succeeded, lastBlockTimestampSec, lastBlockNumber, timers,
                 updateDeadlineTimer, lastSuccessAt>>
  /\ UNCHANGED <<regVars, httpVars>>

LoopNext ==
  \/ Initialize
  \/ SetInterval
  \/ IntervalCall
  \/ IntervalCallDropped
  \/ CycleSucceeds
  \/ CycleFails
  \/ ClockTick
  \/ WatchdogFires

LoopSpec == LoopInit /\ [][LoopNext]_vars

\* initialize() goes on to setInterval once the first call has settled, and
\* the interval of setInterval calls updateValidators() again and again
LoopFairness == WF_vars(SetInterval) /\ WF_vars(IntervalCall)

LoopFairSpec == LoopSpec /\ LoopFairness

\* -------------------------------------------------------------- HTTP reads
\* the types of staking modules: the curated module and any other
ModuleTypes == {"curated-onchain-v1", "community-onchain-v1"}

\* the lists getStakingModules() can return, the empty one included
ModuleLists ==
  UNION { [1..n -> ModuleTypes] : n \in 0..MaxModules }

\* the stores an update can leave: the Meta of a block and the keys of one
\* operator, the first of them used
StoredMetas ==
  { getMetaDataFromStorage({[blockNumber |-> b.number, blockHash |-> b.hash,
                             keysOpIndex |-> b.keysOpIndex,
                             timestamp |-> b.timestamp]}) :
      b \in { Block(n, n, <<>>) : n \in 1..MaxOps } }

StoredKeys ==
  { { [operatorIndex |-> 0, index |-> i, key |-> i + 1, used |-> i < u] :
        i \in 0..(n - 1) } : n \in 0..MaxKeys, u \in 0..1 }

\* the public keys a request can name: those of the store and one more
Pubkeys == 1..(MaxKeys + 1)

\* the filters of KeyQuery: {} for a filter that is not set
KeyQueries ==
  [used : {{}, {TRUE}, {FALSE}}, operatorIndex : {{}} \cup { {o} : o \in 0..1 }]

\* no check of the meta
isNoMeta_Never(meta) == FALSE

\* !meta
isNoMeta(meta) == meta = {}

\* new ELBlockSnapshot(meta), null ({}) kept
ELBlockSnapshot(meta) ==
  { [blockNumber |-> m.blockNumber, blockHash |-> m.blockHash,
     timestamp |-> m.timestamp] : m \in meta }

\* throw httpExceptionTooEarlyResp(): the call returns no keys
TooEarly(modules, meta) ==
  [kind |-> "TooEarly", status |-> 425, data |-> {}, elBlockSnapshot |-> {},
   modules |-> modules, meta |-> meta]

\* throw new NotFoundException(...)
NotFound(modules, meta) ==
  [kind |-> "NotFound", status |-> 404, data |-> {}, elBlockSnapshot |-> {},
   modules |-> modules, meta |-> meta]

\* return {data, meta: {elBlockSnapshot}}, with what the call read
Returns(data, snapshot, modules, meta) ==
  [kind |-> "returned", status |-> 200, data |-> data,
   elBlockSnapshot |-> snapshot, modules |-> modules, meta |-> meta]

\* curatedService.getKeysWithMetaStream({used, operatorIndex}).keysStream
keysStream(rows, filters) ==
  { k \in rows : /\ \A u \in filters.used : k.used = u
                 /\ \A o \in filters.operatorIndex : k.operatorIndex = o }

\* KeysService.get(filters); its last check, of the object that new made,
\* never throws
get(modules, meta, rows, filters) ==
  IF Len(modules) = 0 THEN TooEarly(modules, meta)
  ELSE IF isNoMeta(meta) THEN TooEarly(modules, meta)
  ELSE Returns(keysStream(rows, filters), ELBlockSnapshot(meta), modules, meta)

\* new KeyWithModuleAddress(key, stakingModules[i].stakingModuleAddress), for
\* the keys found, in every curated module of the list
collectedKeys(modules, found) ==
  { [key |-> k, moduleAddress |-> i] :
      k \in found, i \in { j \in 1..Len(modules) :
                             modules[j] = "curated-onchain-v1" } }

\* the loops of getByPubkey and of getByPubkeys, to the check of
\* elBlockSnapshot, which is set at the first module of the list only when
\* it is curated: {} when the call goes on, else what it throws
collect(modules, meta) ==
  IF Len(modules) = 0 THEN {TooEarly(modules, meta)}
  ELSE IF /\ \E i \in 1..Len(modules) : modules[i] = "curated-onchain-v1"
          /\ isNoMeta(meta)
  THEN {TooEarly(modules, meta)}
  ELSE IF modules[1] # "curated-onchain-v1"
  THEN {TooEarly(modules, meta)}
  ELSE {}

\* KeysService.getByPubkey(pubkey)
getByPubkey(modules, meta, rows, pubkey) ==
  LET thrown == collect(modules, meta)
      keys == collectedKeys(modules, { k \in rows : k.key = pubkey })
  IN IF thrown # {} THEN CHOOSE r \in thrown : TRUE
     ELSE IF keys = {} THEN NotFound(modules, meta)
     ELSE Returns(keys, ELBlockSnapshot(meta), modules, meta)

\* KeysService.getByPubkeys(pubkeys)
getByPubkeys(modules, meta, rows, pubkeys) ==
  LET thrown == collect(modules, meta)
      keys == collectedKeys(modules, { k \in rows : k.key \in pubkeys })
  IN IF thrown # {} THEN CHOOSE r \in thrown : TRUE
     ELSE Returns(keys, ELBlockSnapshot(meta), modules, meta)

HttpInit == RegistryInit /\ variant = "key" /\ LoopOff /\ HttpOff

updateVars == <<chain, variant, operatorRows, pc, prevMeta, currMeta,
                previousOperators, currentOperators, cursor, operatorFetches,
                fetchLog, lastResult, pre, retryOf, increasing>>

\* the staking modules are fetched from the staking router
ModulesFetched ==
  /\ \E modules \in ModuleLists : stakingModules' = modules
  /\ UNCHANGED <<regVars, loopVars, response>>

\* an update commits: the Meta of a block and keys
StoreUpdated ==
  /\ \E meta \in StoredMetas, keys \in StoredKeys :
       /\ metaRows' = meta
       /\ keyRows' = keys
  /\ UNCHANGED <<updateVars, loopVars, httpVars>>

HttpGet ==
  /\ \E filters \in KeyQueries :
       response' = get(stakingModules, getMetaDataFromStorage(metaRows),
                       keyRows, filters)
  /\ UNCHANGED <<regVars, loopVars, stakingModules>>

HttpGetByPubkey ==
  /\ \E pubkey \in Pubkeys :
       response' = getByPubkey(stakingModules,
                     getMetaDataFromStorage(metaRows), keyRows, pubkey)
  /\ UNCHANGED <<regVars, loopVars, stakingModules>>

HttpGetByPubkeys ==
  /\ \E pubkeys \in { ps \in SUBSET Pubkeys : Cardinality(ps) <= 2 } :
       response' = getByPubkeys(stakingModules,
                     getMetaDataFromStorage(metaRows), keyRows, pubkeys)
  /\ UNCHANGED <<regVars, loopVars, stakingModules>>

HttpNext ==
  \/ ModulesFetched
  \/ StoreUpdated
  \/ HttpGet
  \/ HttpGetByPubkey
  \/ HttpGetByPubkeys

HttpSpec == HttpInit /\ [][HttpNext]_vars

\* ------------------------------------------------------- a store with rows
\* The store as a test or another registry module leaves it before the
\* registry runs: rows written through the storage services, each with its
\* moduleAddress column. The registry under src/ never names that column:
\* the rows it writes carry none.
ModuleAddresses == {"A", "B"}

SeedOperator(index, moduleAddress) ==
  [index |-> index, totalSigningKeys |-> 1, usedSigningKeys |-> 0,
   moduleAddress |-> moduleAddress]

SeedKey(operatorIndex, moduleAddress) ==
  [operatorIndex |-> operatorIndex, index |-> 0, key |-> 0, used |-> FALSE,
   moduleAddress |-> moduleAddress]

\* the Meta row a registry of the module left at the first block
SeedMeta(moduleAddress) ==
  [blockNumber |-> 1, blockHash |-> 1, keysOpIndex |-> 0, timestamp |-> 12,
   moduleAddress |-> moduleAddress]

\* the stores a seeding can leave: rows of one module, operators of any
\* indexes, keys of some of them, a Meta row or none
SeededStores ==
  { Store(m, o, k) :
      m \in { {SeedMeta(a)} : a \in ModuleAddresses } \cup {{}},
      o \in { { SeedOperator(i, a) : i \in s } :
                s \in SUBSET (0..(MaxOps - 1)), a \in ModuleAddresses },
      k \in { { SeedKey(i, a) : i \in s } :
                s \in SUBSET (0..(MaxOps - 1)), a \in ModuleAddresses } }

\* the rows of a store that carry a module address
RowsOf(store, moduleAddress) ==
  Store({ r \in store.meta : "moduleAddress" \in DOMAIN r
                             /\ r.moduleAddress = moduleAddress },
        { r \in store.operators : "moduleAddress" \in DOMAIN r
                                  /\ r.moduleAddress = moduleAddress },
        { r \in store.keys : "moduleAddress" \in DOMAIN r
                             /\ r.moduleAddress = moduleAddress })

\* keyStorageService.save(keys), operatorStorageService.save(operators) on
\* a new store, as in beforeEach: the rows of one module, every key with
\* its operator
Seed ==
  /\ pc = "idle"
  /\ CurrentStore = EmptyStore
  /\ \E store \in SeededStores, a \in ModuleAddresses :
       /\ store # EmptyStore
       /\ store = RowsOf(store, a)
       /\ \A k \in store.keys :
            \E o \in store.operators : o.index = k.operatorIndex
       /\ metaRows' = store.meta
       /\ operatorRows' = store.operators
       /\ keyRows' = store.keys
  /\ UNCHANGED <<loopVars, httpVars>>
  /\ UNCHANGED <<chain, variant, pc, prevMeta, currMeta, previousOperators,
                 currentOperators, cursor, operatorFetches, fetchLog,
                 lastResult, pre, retryOf, increasing>>

\* the three tables in the order clear() deletes them
ClearOrder == <<"keys", "operators", "meta">>

\* the store after the first n deletes of clear()
Cleared(store, n) ==
  Store(IF n >= 3 THEN {} ELSE store.meta,
        IF n >= 2 THEN {} ELSE store.operators,
        IF n >= 1 THEN {} ELSE store.keys)

\* clear(): the callback starts the three nativeDelete calls and resolves
\* without awaiting them; the transaction commits when the callback has
\* resolved, with the deletes that reached the connection by then
clearOutcomes(store) == { Cleared(store, n) : n \in 0..Len(ClearOrder) }

\* await registryService.clear(): the promise of clear() resolves
Clear ==
  /\ pc = "idle"
  /\ \E left \in clearOutcomes(CurrentStore) :
       /\ metaRows' = left.meta
       /\ operatorRows' = left.operators
       /\ keyRows' = left.keys
  /\ pre' = CurrentStore
  /\ pc' = "done"
  /\ lastResult' = "cleared"
  /\ UNCHANGED <<loopVars, httpVars>>
  /\ UNCHANGED <<chain, variant, prevMeta, currMeta, previousOperators,
                 currentOperators, cursor, operatorFetches, fetchLog,
                 retryOf, increasing>>

StoreNext ==
  \/ Seed
  \/ ChainAdvance
  \/ UpdateBegin
  \/ ReturnStale
  \/ FastPath
  \/ CollectOperators
  \/ SaveOperatorsAndMeta
  \/ SyncKeys
  \/ UpdateReturn
  \/ Clear
  \/ UpdateEnd

StoreSpec == Init /\ [][StoreNext]_vars

\* ------------------------------------------------------------ observations
\* the block number the store records, -1 when it records none
MetaBlockNumber(rows) ==
  IF rows = {} THEN -1 ELSE (CHOOSE m \in rows : TRUE).blockNumber

\* update returned without throwing
Returned == pc = "done" /\ lastResult \in {"stale", "fast", "slow"}

\* the contract's operators at a block, as rows
ContractOperators(blockHash) ==
  LET ops == getOperatorsFromContract(blockHash)
  IN { ops[p] : p \in 1..Len(ops) }

\* the contract's keys at a block over [0, getToIndex(operator)), as rows
ContractKeys(blockHash) ==
  UNION { keyFetch(o.index, 0, getToIndex(o), blockHash) :
            o \in ContractOperators(blockHash) }

\* the loop of syncUpdatedKeysWithContract run to its end
RECURSIVE SyncedKeys(_, _, _, _, _)
SyncedKeys(rows, prevOps, currOps, position, blockHash) ==
  IF position > Len(currOps) THEN rows
  ELSE SyncedKeys(
         saveKeys(rows, FetchKeys(FetchRange(prevOps, currOps, position),
                                  blockHash)),
         prevOps, currOps, position + 1, blockHash)

\* the store one update, run to its end without a failure, makes of a store
SingleShot(store, blockHash) ==
  LET prev == getMetaDataFromStorage(store.meta)
      curr == getMetaDataFromContract(BlockOfHash(blockHash))
  IN IF isStale(prev, curr) THEN store
     ELSE IF isSameContractState(prev, curr)
     THEN Store(replaceMeta(store.meta, curr), store.operators, store.keys)
     ELSE LET prevOps == getOperatorsFromStorage(store.operators)
              currOps == getOperatorsFromContract(blockHash)
              saved == saveOperatorsAndMeta(store, currOps, curr)
          IN Store(saved.meta, saved.operators,
                   SyncedKeys(saved.keys, prevOps, currOps, 1, blockHash))

\* ------------------------------------------------------------------ claims
\* C1: when an update was aborted after its operator/meta commit, an update
\* against the same block that then returns leaves the store a single update
\* without a failure would have made of the aborted update's start store.
C1_ConvergenceAfterAbort ==
  (Returned /\ lastResult # "stale") =>
    \A r \in retryOf : CurrentStore = SingleShot(r.store, r.blockHash)

\* C2: in every committed state of the store, when Meta records block B the
\* operators are the contract's operators at B and the keys are the
\* contract's keys at B over [0, getToIndex(operator)).
C2_PointInTimeConsistency ==
  \A m \in metaRows :
    /\ operatorRows = ContractOperators(m.blockHash)
    /\ keyRows = ContractKeys(m.blockHash)

\* C3: the block number the store records never decreases, whatever the
\* calls (returned, stale, fast path, aborted); and while every call so far
\* returned and the block numbers of the calls strictly increased, the store
\* records the block number of the last call when it returns.
C3_MonotoneMeta ==
  /\ [][MetaBlockNumber(metaRows') >= MetaBlockNumber(metaRows)]_vars
  /\ [](pc = "done" /\ increasing >= 1 =>
          MetaBlockNumber(metaRows) = increasing)

\* two calls and more, each returned, at strictly increasing blocks, the
\* last one being a slow path over a store that recorded an older block
C3_Witness ==
  /\ pc = "done"
  /\ lastResult = "slow"
  /\ increasing >= 1
  /\ prevMeta # {}
  /\ MetaBlockNumber(prevMeta) < increasing

\* C4: a call that finds a Meta row whose blockNumber is greater than the
\* resolved block's returns without throwing, with no operator fetch and no
\* key fetch, and with Meta, operators and keys as they were.
C4_StaleNoOp ==
  (pc = "done" /\ prevMeta # {}
     /\ MetaBlockNumber(prevMeta) > currMeta.blockNumber) =>
    /\ lastResult = "stale"
    /\ operatorFetches = 0
    /\ fetchLog = <<>>
    /\ CurrentStore = pre

\* a stale return over a store that holds operators and keys
C4_Witness ==
  /\ pc = "done"
  /\ lastResult = "stale"
  /\ MetaBlockNumber(prevMeta) > currMeta.blockNumber
  /\ operatorRows # {}
  /\ keyRows # {}

\* C5: a call for which compareMeta(prevMeta, currMeta) is true, and that
\* does not throw, fetches no operators and no keys, leaves the operator and
\* key rows as they were and leaves exactly the Meta row currMeta; the store
\* after it is the store before it when both metas are of the same block.
C5_FastPath ==
  (pc = "done" /\ lastResult # "aborted" /\ compareMeta(prevMeta, currMeta)) =>
    /\ lastResult = "fast"
    /\ operatorFetches = 0
    /\ fetchLog = <<>>
    /\ operatorRows = pre.operators
    /\ keyRows = pre.keys
    /\ metaRows = {currMeta}
    /\ (\A m \in pre.meta : m.blockHash = currMeta.blockHash) =>
         CurrentStore = pre

\* a fast path over a store that holds operators and keys
C5_Witness ==
  /\ pc = "done"
  /\ lastResult = "fast"
  /\ compareMeta(prevMeta, currMeta)
  /\ operatorRows # {}
  /\ keyRows # {}

\* C6: after an update that returns, every key row has an operator row of
\* its operatorIndex, and its index is below that operator's
\* totalSigningKeys.
C6_TotalBound ==
  Returned =>
    \A k \in keyRows :
      \E o \in operatorRows : /\ o.index = k.operatorIndex
                              /\ k.index < o.totalSigningKeys

\* a returned update that found a key at or above the new total of its
\* operator
C6_Witness ==
  /\ Returned
  /\ \E k \in pre.keys :
       \E o \in operatorRows : /\ o.index = k.operatorIndex
                               /\ k.index >= o.totalSigningKeys

\* C7: after an update that returns, every key row whose index is below its
\* operator row's usedSigningKeys has used = TRUE.
C7_UsedKeys ==
  Returned =>
    \A k \in keyRows :
      \A o \in operatorRows :
        (o.index = k.operatorIndex /\ k.index < o.usedSigningKeys) => k.used

\* C8: the key rows an operator had below min(usedSigningKeys before the
\* update, usedSigningKeys after it) are rows of the store after the update,
\* unchanged.
C8_PrefixImmutability ==
  pc = "done" =>
    \A before \in pre.operators :
      \A after \in operatorRows :
        before.index = after.index =>
          \A k \in pre.keys :
            (/\ k.operatorIndex = before.index
             /\ k.index < before.usedSigningKeys
             /\ k.index < after.usedSigningKeys) => k \in keyRows

\* C9: an update of an empty store that returns took the slow path and
\* leaves the Meta of the resolved block, the contract's operators at that
\* block and the contract's keys at that block over [0, getToIndex), every
\* operator fetched once, from 0.
C9_Bootstrap ==
  (Returned /\ pre = EmptyStore) =>
    /\ lastResult = "slow"
    /\ metaRows = {getMetaDataFromContract(BlockOfHash(currMeta.blockHash))}
    /\ operatorRows = ContractOperators(currMeta.blockHash)
    /\ keyRows = ContractKeys(currMeta.blockHash)
    /\ Len(fetchLog) = Len(currentOperators)
    /\ \A p \in 1..Len(fetchLog) :
         /\ fetchLog[p].operatorIndex = currentOperators[p].index
         /\ fetchLog[p].fromIndex = 0
         /\ fetchLog[p].toIndex = getToIndex(currentOperators[p])

\* a bootstrap with two operators, one of them with a used key
C9_Witness ==
  /\ Returned
  /\ pre = EmptyStore
  /\ Cardinality(operatorRows) = 2
  /\ \E o \in operatorRows : o.usedSigningKeys = 1

\* the case of C10: the fetch at a position is for an operator that was
\* stored with fewer keys and the same, non-zero, number of used keys
KeyAdded(p) ==
  /\ p <= Len(previousOperators)
  /\ previousOperators[p].index = currentOperators[p].index
  /\ previousOperators[p].totalSigningKeys < currentOperators[p].totalSigningKeys
  /\ previousOperators[p].usedSigningKeys = currentOperators[p].usedSigningKeys

\* C10 as stated: in the key-mirror variant, after calls that all returned,
\* when an operator's totalSigningKeys grew and its usedSigningKeys did not
\* change, its keys are fetched from the previous usedSigningKeys to the new
\* totalSigningKeys.
C10_KeyAddedFromUsed ==
  (variant = "key" /\ increasing >= 1) =>
    \A p \in 1..Len(fetchLog) :
      KeyAdded(p) =>
        /\ fetchLog[p].fromIndex = previousOperators[p].usedSigningKeys
        /\ fetchLog[p].toIndex = currentOperators[p].totalSigningKeys

\* C10 amended: when an operator's totalSigningKeys grew and its
\* usedSigningKeys did not change, its keys are fetched from 0 to
\* getToIndex of the operator, which is the new totalSigningKeys in the
\* key-mirror variant: the used prefix is fetched again.
C10_KeyAddedFromZero ==
  \A p \in 1..Len(fetchLog) :
    KeyAdded(p) =>
      /\ fetchLog[p].operatorIndex = currentOperators[p].index
      /\ fetchLog[p].fromIndex = 0
      /\ fetchLog[p].toIndex = getToIndex(currentOperators[p])
      /\ variant = "key" =>
           fetchLog[p].toIndex = currentOperators[p].totalSigningKeys

\* the key-mirror variant fetches an operator whose total grew from 1 to 2
\* with one used key
C10_Witness ==
  /\ variant = "key"
  /\ \E p \in 1..Len(fetchLog) :
       /\ KeyAdded(p)
       /\ previousOperators[p].usedSigningKeys = 1
       /\ currentOperators[p].totalSigningKeys = 2

\* the primary keys of key rows
KeyIds(rows) == { <<k.operatorIndex, k.index>> : k \in rows }

\* the key rows an update created and the key rows it deleted
CreatedKeys(before, after) ==
  { k \in after : <<k.operatorIndex, k.index>> \notin KeyIds(before) }

DeletedKeys(before, after) ==
  { k \in before : <<k.operatorIndex, k.index>> \notin KeyIds(after) }

\* the case of C11: a slow path that returned, at a block whose operators are
\* the stored operators and one more, the keys of the stored operators being
\* the stored keys
FreshOperator ==
  /\ pc = "done"
  /\ lastResult = "slow"
  /\ prevMeta # {}
  /\ Len(currentOperators) = Cardinality(pre.operators) + 1
  /\ LET fresh == currentOperators[Len(currentOperators)]
     IN /\ pre.operators = ContractOperators(currMeta.blockHash) \ {fresh}
        /\ pre.keys = { k \in ContractKeys(currMeta.blockHash) :
                          k.operatorIndex # fresh.index }

\* C11 as stated: when the contract gains one operator with N keys and
\* nothing else changes, the update creates exactly N key rows, all of the
\* new operator, and deletes none.
C11_FreshOperatorTotal ==
  FreshOperator =>
    LET fresh == currentOperators[Len(currentOperators)]
    IN /\ Cardinality(CreatedKeys(pre.keys, keyRows)) = fresh.totalSigningKeys
       /\ \A k \in CreatedKeys(pre.keys, keyRows) : k.operatorIndex = fresh.index
       /\ DeletedKeys(pre.keys, keyRows) = {}

\* C11 amended: when the contract gains one operator and nothing else
\* changes, the update creates exactly getToIndex(new operator) key rows, the
\* keys of the new operator over [0, getToIndex): its totalSigningKeys in the
\* key-mirror variant, its usedSigningKeys in the validator-mirror variant;
\* it deletes no key row and leaves the rows of the other operators as they
\* were.
C11_FreshOperatorToIndex ==
  FreshOperator =>
    LET fresh == currentOperators[Len(currentOperators)]
    IN /\ Cardinality(CreatedKeys(pre.keys, keyRows)) = getToIndex(fresh)
       /\ CreatedKeys(pre.keys, keyRows) =
            keyFetch(fresh.index, 0, getToIndex(fresh), currMeta.blockHash)
       /\ DeletedKeys(pre.keys, keyRows) = {}
       /\ pre.keys \subseteq keyRows
       /\ variant = "key" =>
            Cardinality(CreatedKeys(pre.keys, keyRows)) = fresh.totalSigningKeys
       /\ variant = "validator" =>
            Cardinality(CreatedKeys(pre.keys, keyRows)) = fresh.usedSigningKeys

\* a second operator with a key that is not used, next to a stored operator
C11_Witness ==
  /\ FreshOperator
  /\ pre.operators # {}
  /\ LET fresh == currentOperators[Len(currentOperators)]
     IN fresh.totalSigningKeys = 1 /\ fresh.usedSigningKeys = 0

\* C12: at most one body of updateValidators is executing at any time; a
\* call that arrives while a body is executing is dropped, it changes nothing
\* of the loop and of the watchdog; and a body starts only at a call that
\* finds none executing, so that no call is kept for later.
C12_SingleFlight ==
  /\ [](executing <= 1)
  /\ [][(calls' = calls + 1 /\ executing > 0) =>
          /\ dropped' = dropped + 1
          /\ UNCHANGED <<isExecuting, executing, succeeded,
                         lastBlockTimestampSec, lastBlockNumber, timers,
                         updateDeadlineTimer, exited>>]_vars
  /\ [][executing' > executing => (calls' = calls + 1 /\ executing = 0)]_vars

\* a call was dropped and the body it found executing is still executing
C12_Witness ==
  /\ dropped >= 1
  /\ executing = 1
  /\ loopPc = "interval"

\* C13: after every body of updateValidators that ran to its end, the
\* timeout armed before is cancelled and a new one is armed: at most one
\* timeout is pending at any time, and the watchdog terminates the process
\* only when no body ran to its end for the timeout.
C13_WatchdogReset ==
  /\ Cardinality(timers) <= 1
  /\ exited # {} => now - lastSuccessAt >= UPDATE_VALIDATORS_TIMEOUT_MIN

\* C14: while the process runs, once initialize has armed the deadline, the
\* time since the deadline was last armed
\* (by initialize or by a body of updateValidators that ran to its end) never
\* exceeds the timeout: the watchdog has terminated the process by then; it
\* exits with code 1 and the last observed block number, never with code 0;
\* and a body that fails or a call that is dropped neither arms nor cancels
\* a timeout: the timeouts change only in initialize and at the end of a
\* body that ran to its end.
C14_WatchdogFires ==
  /\ []((exited = {} /\ loopPc # "init") =>
          now - lastSuccessAt <= UPDATE_VALIDATORS_TIMEOUT_MIN)
  /\ [](\A e \in exited : e.code = 1 /\ e.lastBlockNumber = lastBlockNumber)
  /\ [][(timers' # timers \/ updateDeadlineTimer' # updateDeadlineTimer) =>
          (loopPc = "init" \/ succeeded' = succeeded + 1)]_vars
  /\ [][(succeeded' = succeeded /\ loopPc # "init") =>
          UNCHANGED <<timers, updateDeadlineTimer, lastSuccessAt>>]_vars

\* the watchdog terminated the process after a body failed, a call was
\* dropped and an earlier body had recorded a block
C14_Witness ==
  /\ exited # {}
  /\ lastBlockNumber # {}
  /\ dropped >= 1
  /\ calls - dropped > succeeded
  /\ executing = 0
  /\ now - lastSuccessAt >= UPDATE_VALIDATORS_TIMEOUT_MIN

\* C15: an update that throws before the transaction of saveOperatorsAndMeta
\* committed (resolving the block, fetching keysOpIndex, fetching the
\* operators, or inside that transaction) leaves Meta, the operators and the
\* keys as they were when it was called.
C15_AbortBeforeCommit ==
  (pc = "done" /\ lastResult = "aborted" /\ cursor = 0) => CurrentStore = pre

\* an update thrown out of the transaction of saveOperatorsAndMeta, which
\* had key rows to delete and operator rows to change
C15_Witness ==
  /\ pc = "done"
  /\ lastResult = "aborted"
  /\ cursor = 0
  /\ currentOperators # <<>>
  /\ deleteTailKeys(pre.keys, currentOperators) # pre.keys
  /\ upsertOperators(pre.operators, currentOperators) # pre.operators

\* C16: every key fetch of every update is for the operator at its position
\* of the current operator list, with the right border getToIndex of that
\* operator: its totalSigningKeys in the key-mirror variant, its
\* usedSigningKeys in the validator-mirror variant.
C16_RightBorder ==
  \A p \in 1..Len(fetchLog) :
    /\ fetchLog[p].operatorIndex = currentOperators[p].index
    /\ variant = "key" =>
         fetchLog[p].toIndex = currentOperators[p].totalSigningKeys
    /\ variant = "validator" =>
         fetchLog[p].toIndex = currentOperators[p].usedSigningKeys

\* the validator-mirror variant fetched an operator that has two keys, one
\* of them used
C16_Witness ==
  /\ variant = "validator"
  /\ \E p \in 1..Len(fetchLog) :
       /\ currentOperators[p].totalSigningKeys = 2
       /\ currentOperators[p].usedSigningKeys = 1
       /\ fetchLog[p].toIndex = 1

\* C17: every call of KeysService.get, getByPubkey or getByPubkeys that
\* found the staking-module list empty or Meta null ended with TooEarly
\* (425) and no keys; and every call that returned carries the
\* elBlockSnapshot of the Meta it read, which was not null.
C17_TooEarly ==
  response.kind # "none" =>
    /\ (response.modules = <<>> \/ response.meta = {}) =>
         /\ response.kind = "TooEarly"
         /\ response.status = 425
         /\ response.data = {}
    /\ response.kind = "returned" =>
         /\ response.meta # {}
         /\ response.elBlockSnapshot # {}
         /\ response.elBlockSnapshot = ELBlockSnapshot(response.meta)

\* a call by public key that found a curated module and no Meta
C17_Witness ==
  /\ response.kind = "TooEarly"
  /\ response.meta = {}
  /\ response.modules # <<>>
  /\ response.modules[1] = "curated-onchain-v1"

\* the key rows of one operator
KeysOf(rows, operatorIndex) == { k \in rows : k.operatorIndex = operatorIndex }

\* C18: within one update, no key is fetched and no key row is written
\* before the transaction of saveOperatorsAndMeta committed; from then on
\* the store holds the Meta and the operators of the update; the keys are
\* fetched and upserted one operator at a time, in the order of the current
\* operator list, which ascends by index: the operators before the cursor
\* have their fetched keys in the store, the others have the rows the
\* commit left them.
C18_CommitOrder ==
  /\ pc \in {"decide", "save"} => (fetchLog = <<>> /\ keyRows = pre.keys)
  /\ pc = "save" => (metaRows = pre.meta /\ operatorRows = pre.operators)
  /\ pc = "keys" =>
       /\ metaRows = {currMeta}
       /\ \A p \in 1..Len(currentOperators) :
            currentOperators[p] \in operatorRows
       /\ Len(fetchLog) = cursor - 1
       /\ \A p \in 1..Len(currentOperators) :
            LET index == currentOperators[p].index
            IN /\ p < Len(currentOperators) =>
                    index < currentOperators[p + 1].index
               /\ p < cursor =>
                    /\ fetchLog[p].operatorIndex = index
                    /\ FetchKeys(fetchLog[p], currMeta.blockHash) \subseteq keyRows
               /\ p >= cursor =>
                    KeysOf(keyRows, index) =
                      KeysOf(deleteTailKeys(pre.keys, currentOperators), index)

\* between the upserts of the first and of the second operator, each with a
\* key to fetch
C18_Witness ==
  /\ pc = "keys"
  /\ cursor = 2
  /\ Len(currentOperators) = 2
  /\ fetchLog[1].fromIndex < fetchLog[1].toIndex
  /\ getToIndex(currentOperators[2]) > 0
  /\ KeysOf(keyRows, currentOperators[2].index) = {}

SameColumns(p) ==
  /\ p <= Len(previousOperators)
  /\ previousOperators[p].index = currentOperators[p].index
  /\ previousOperators[p].totalSigningKeys =
       currentOperators[p].totalSigningKeys
  /\ previousOperators[p].usedSigningKeys =
       currentOperators[p].usedSigningKeys

StoredOperator(rows, index) == { o \in rows : o.index = index }

\* C21: every current operator the slow path has processed was compared
\* with the stored operator of its own index, or with null when the store
\* held no operator of that index, whatever rows the store returned
C21_OperatorPairing ==
  pc \in {"keys", "done"} =>
    \A p \in 1..Len(currentOperators) :
      p < cursor =>
        prevOperatorAt(previousOperators, p)
          = StoredOperator(pre.operators, currentOperators[p].index)
\* the cycles that ended by a rejection
FailedCycles == calls - dropped - succeeded - executing

\* C22: a cycle that fails, the first one included, releases the guard and
\* leaves the loop as it was; the interval, once installed, stays installed;
\* and after a failure a new cycle starts unless the process has exited
C22_RetryAfterFailure ==
  /\ [][(executing' = executing - 1 /\ succeeded' = succeeded)
          => /\ isExecuting' = FALSE
             /\ loopPc' = loopPc
             /\ exited' = exited
             /\ timers' = timers]_vars
  /\ [][loopPc = "interval" => loopPc' = "interval"]_vars
  /\ \A n \in 1..(MaxCalls - 1) :
       (FailedCycles > 0 /\ executing = 0 /\ calls = n)
         ~> (exited # {} \/ (calls > n /\ loopPc = "interval"))

\* the first cycle failed, the interval was installed, and its call started
\* a new cycle
C22_Witness ==
  /\ loopPc = "interval"
  /\ calls = 2
  /\ dropped = 0
  /\ succeeded = 0
  /\ executing = 1
  /\ isExecuting
  /\ exited = {}
\* the module whose rows the registry does not serve
OtherModule == "B"

\* C23: an update that returns by the fast path or the slow path leaves the
\* Meta row, the operator rows and the key rows of the other module as they
\* were, and the store holds one Meta row at most for a module address
C23_ModuleIsolation ==
  (pc = "done" /\ lastResult \in {"fast", "slow"}) =>
    /\ RowsOf(CurrentStore, OtherModule) = RowsOf(pre, OtherModule)
    /\ \A a \in ModuleAddresses :
         Cardinality(RowsOf(CurrentStore, a).meta) <= 1
\* the columns of an operator row the contract gives
ContractColumns(row) ==
  [index |-> row.index, totalSigningKeys |-> row.totalSigningKeys,
   usedSigningKeys |-> row.usedSigningKeys]

\* C24: when a slow-path update has returned, the stored operators are the
\* contract's operators at the block hash of the Meta row, and no key is
\* stored for an operator the contract does not list
C24_OperatorSetEquality ==
  (pc = "done" /\ lastResult = "slow") =>
    /\ { ContractColumns(o) : o \in operatorRows }
         = ContractOperators(currMeta.blockHash)
    /\ \A m \in metaRows : m.blockHash = currMeta.blockHash
    /\ \A k \in keyRows :
         \E o \in ContractOperators(currMeta.blockHash) :
           o.index = k.operatorIndex
\* C25: when the promise of clear() has resolved the store holds no Meta
\* row, no operator row and no key row
C25_ClearEmpties ==
  (pc = "done" /\ lastResult = "cleared") => CurrentStore = EmptyStore

====
